---- MODULE Spec2Model ----
(***************************************************************************)
(* Model of the push side of the LV2 plugin uploader (uploader.py): the    *)
(* Patchstorage client (auth, get, upload_file, upload, update), the       *)
(* reconciliation in Patchstorage.push and the per-bundle loop of          *)
(* PluginManager.push_bundles.                                             *)
(*                                                                         *)
(* One step of the model is one request to the service together with the   *)
(* local code that follows it up to the next request.  The service and the *)
(* user are the environment: every response and every answer to a prompt   *)
(* is drawn from a small set.  `log' is the list of requests sent for the  *)
(* bundle being processed; `outcome' records how each bundle ended.        *)
(***************************************************************************)
EXTENDS Integers, Sequences, FiniteSets, TLC

\* ------------------------------------------------------------------ bounds
MaxBundles  == 2   \* folders in the dist directory
MaxFiles    == 2   \* files of one prepared record

\* --------------------------------------------------------- values and sets
NoTarget == 0      \* target_id is None / the key is absent from the file dict
TargetIds == {7}
PatchId == 5       \* id of the one entity the lookup can resolve to

\* Account names are sequences of characters so that lower() is computed.
UserNames   == { <<"A", "b">>, <<"b", "a">> }
AuthorSlugs == { <<"a", "B">>, <<"b", "a">> }

AllKeys == {"uids", "revision", "artwork", "files"}

\* JSON values held by the record's artwork and files fields.
Path(p)    == [kind |-> "path", n |-> 0, p |-> p, target_id |-> NoTarget]
File(p, t) == [kind |-> "file", n |-> 0, p |-> p, target_id |-> t]
IntVal(n)  == [kind |-> "int",  n |-> n, p |-> "",  target_id |-> NoTarget]

\* The "id" member of a POST /files response: a JSON number or a JSON string.
IdNum(n) == [kind |-> "int", n |-> n, s |-> <<>>]
IdStr(s) == [kind |-> "str", n |-> 0, s |-> s]
FileIdResponses == { IdNum(3), IdStr(<<"1", "2">>), IdStr(<<"x">>) }

\* Revisions of local records and remote entities; sizes of a lookup's list.
Revisions == {1, 2}
MatchCounts == {0, 1, 2}

FilePath(i) == "f" \o ToString(i)

\* File lists of every length up to MaxFiles: without targets, or with
\* targets on the odd or on the even positions.
TargetPatterns == {"none", "odd", "even"}
TargetAt(pat, i, t) ==
    IF (pat = "odd" /\ i % 2 = 1) \/ (pat = "even" /\ i % 2 = 0) THEN t ELSE NoTarget
FileLists ==
    { [i \in 1..k |-> File(FilePath(i), TargetAt(pat, i, t))] :
        k \in 0..MaxFiles, pat \in TargetPatterns, t \in TargetIds }

\* Contents of dist/<folder>/patchstorage.json as push reads it.
Record(keys, uids, rev, fl) ==
    [state |-> "json", keys |-> keys, uids |-> uids, revision |-> rev,
     artwork |-> Path("artwork.png"), files |-> fl]
ValidRecords ==
    { Record(AllKeys, <<"u1">>, r, fl) : r \in Revisions, fl \in FileLists }
PlainFileLists == { fl \in FileLists : \A i \in DOMAIN fl : fl[i].target_id = NoTarget }
DefectiveRecords ==
    { Record(AllKeys \ {k}, <<"u1">>, 1, fl) : k \in AllKeys, fl \in PlainFileLists }
    \cup { Record(AllKeys, <<>>, 1, fl) : fl \in PlainFileLists }
UnreadableRecords ==
    { [state |-> s, keys |-> {}, uids |-> <<>>, revision |-> 1,
       artwork |-> Path("artwork.png"), files |-> <<>>] : s \in {"missing", "bad_json"} }
RecordFiles == ValidRecords \cup DefectiveRecords \cup UnreadableRecords
NoData == CHOOSE r \in UnreadableRecords : r.state = "missing"

\* What Patchstorage.get returns: None, the entity, or a JSON error body.
NoneEntity == [kind |-> "None", id |-> 0, author |-> <<>>, revision |-> 0, nfiles |-> 0]
Entity(a, r, n) == [kind |-> "entity", id |-> PatchId, author |-> a, revision |-> r, nfiles |-> n]
ErrorBody == [kind |-> "error", id |-> 0, author |-> <<>>, revision |-> 0, nfiles |-> 0]
Entities == { Entity(a, r, n) : a \in AuthorSlugs, r \in Revisions, n \in 1..MaxFiles }

\* How one HTTP exchange can end.
ResponseKinds == {"ok", "http_error", "non_json", "conn_error", "bad_shape"}

Outcomes == {"Unprocessed", "Uploaded", "Updated", "Skipped", "Failed", "Aborted"}

\* ------------------------------------------------ data of the prepare command
\* Package names: the folders of a target folder, and of PATH_DIST.
Packages == 1..MaxBundles

\* self.targets: what get_platform_targets returned, a non-empty list.
Target(slug, id) == [slug |-> slug, id |-> id]
PlatformTargets ==
    { <<Target("a", 7)>>,
      <<Target("a", 7), Target("b", 8)>>,
      <<Target("b", 8), Target("a", 7)>> }

\* PATH_PLUGINS: the folders "a" and "b" carry the slugs of targets, "x" is
\* a folder that is no target's; each may be missing. An entry of a folder is
\* a directory, a plain file, or not there.
TargetFolders == {"a", "b", "x"}
Entries == {"none", "file", "dir"}
Folder(e) == [exists |-> TRUE, entry |-> e]
NoFolder == [exists |-> FALSE, entry |-> [p \in Packages |-> "none"]]
Folders == {NoFolder} \cup { Folder(e) : e \in [Packages -> Entries] }
Layouts == { [exists |-> TRUE, folder |-> f] : f \in [TargetFolders -> Folders] }
NoPlugins == [exists |-> FALSE, folder |-> [t \in TargetFolders |-> NoFolder]]
\* The layouts the whole command is run on: both target folders, no stray
\* folder, directories only.
CommandLayouts ==
    { l \in Layouts :
        /\ ~l.folder["x"].exists /\ l.folder["a"].exists /\ l.folder["b"].exists
        /\ \A t \in {"a", "b"}, p \in Packages : l.folder[t].entry[p] # "file" }

\* One folder of PATH_DIST: artwork.png, the archives (by target slug) and
\* patchstorage.json.
NoRecord == [state |-> "missing"]
Content(art, tars, json) == [artwork |-> art, tarballs |-> tars, json |-> json]
EmptyFolder == Content(FALSE, {}, NoRecord)
\* What an earlier prepare pass left for a package.
EarlierRecord(p) ==
    [state |-> "json", keys |-> AllKeys \cup {"legacy"}, uids |-> <<"u1">>, revision |-> 1,
     artwork |-> Path("artwork.png"), files |-> <<File(<<p, "old">>, NoTarget)>>]
EarlierContent(p) == Content(TRUE, {"old"}, EarlierRecord(p))

\* Exceptions of the bundles module that the manager catches (line 9).
BundleErrors == {"BundleBadContents", "PluginFieldMissing"}

\* How the calls into the bundles module can end: basic validation of the
\* required files, full validation, metadata resolution (an unknown license
\* or category is a PluginFieldMissing), artwork and archive creation.
validate_basic_files == {"None"} \cup BundleErrors
validate == {"None"} \cup BundleErrors
get_patchstorage_data == {"None", "PluginFieldMissing"}
create_artwork == {"None", "BundleBadContents"}
create_tarballs == {"None", "BundleBadContents"}

VARIABLES
    PS_API_TOKEN,     \* Patchstorage.PS_API_TOKEN: "None" or the token
    auth_result,      \* how the POST /auth/token exchange ended ("none" before it)
    auth_calls,       \* number of calls of Patchstorage.auth
    dist,             \* PATH_DIST: folder name -> contents of the folder
    plugins,          \* PATH_PLUGINS: the layout, or NoPlugins
    targets,          \* PluginManager.targets
    arg,              \* prepare's plugin_name: 0 is 'all', else a package
    ppc,              \* position in the prepare command ("idle": not run)
    pexc,             \* the exception that ended the prepare command
    multi_bundles_map,\* PluginManager.multi_bundles_map, in insertion order
    reported,         \* packages the scan reported as failing
    bi,               \* index in multi_bundles_map of the bundle in work
    prepared, failed, \* prepare_bundles: the two counters
    printed,          \* prepare_bundles printed the counters
    prep_outcome,     \* per bundle of the map: how prepare_bundle returned
    patchstorage_data,\* _prepare_bundle: the resolved metadata
    plugin_name,      \* push_bundles argument: 0 is '' (all), else a folder
    username, auto, force,
    pc,               \* position in push_bundles / push
    run,              \* "running", "finished" or "aborted" (uncaught exception)
    exc,              \* the exception that ended the last bundle or the run
    plugins_folders,  \* the list push_bundles iterates over
    idx,              \* index of the folder being pushed
    record,           \* dist/<folder>/patchstorage.json as push found it
    data,             \* push: the loaded record
    uploaded,         \* push: result of Patchstorage.get
    mode,             \* "none", "upload" (create) or "update"
    prompted,         \* click.confirm was called for this bundle
    answer,           \* what click.confirm returned: "none", "yes" or "no"
    held,             \* the entity the service is known to hold for the folder
                      \* being pushed again (NoneEntity: nothing is known)
    artwork_id,       \* upload/update: raw id of the artwork upload
    file_ids,         \* upload/update: ids collected so far
    log,              \* requests sent for the current bundle
    outcome           \* terminal state of every bundle of the run

\* The state of the prepare command; the push command only reads dist.
PrepareVars == <<dist, plugins, targets, arg, ppc, pexc, multi_bundles_map, reported, bi,
                 prepared, failed, printed, prep_outcome, patchstorage_data>>

vars == <<PS_API_TOKEN, auth_result, auth_calls, plugin_name, username, auto, force, pc,
          run, exc, plugins_folders, idx, record, data, uploaded, mode, prompted, answer,
          held, artwork_id, file_ids, log, outcome, PrepareVars>>

\* ------------------------------------------------------------ pure helpers
LowerChar(c) == CASE c = "A" -> "a" [] c = "B" -> "b" [] OTHER -> c
lower(s) == [i \in DOMAIN s |-> LowerChar(s[i])]

\* Variant: the slugs are compared as they are spelled.
SameOwner_CaseSensitive(author, user) == author = user

\* push, line 275: uploaded['author']['slug'].lower() == username.lower()
SameOwner(author, user) == lower(author) = lower(user)

\* Variant: the number of files is not compared.
SameVersion_RevisionOnly(up, d) == up.revision = d.revision

\* push, line 289: same revision and same number of files
SameVersion(up, d) == up.revision = d.revision /\ up.nfiles = Len(d.files)

\* requests.get/post/put: a connectivity error raises ConnectionError.
send_request(kind) == IF kind = "conn_error" THEN "ConnectionError" ELSE "None"

decode_json_response(kind) ==
    IF kind = "non_json" THEN "PatchstorageException" ELSE "None"

\* Variant: the status of the response is not looked at.
raise_if_not_ok_Never(kind) == "None"

\* "if not r.ok: raise PatchstorageException(...)"
raise_if_not_ok(kind) ==
    IF kind = "http_error" THEN "PatchstorageException" ELSE "None"

\* The exception, if any, of: send; decode_json_response; if not r.ok: raise.
RequestError(kind) ==
    IF send_request(kind) # "None" THEN send_request(kind)
    ELSE IF decode_json_response(kind) # "None" THEN decode_json_response(kind)
    ELSE raise_if_not_ok(kind)

\* int(file_id): a number is itself, a string is parsed as decimal digits.
DigitChars == {"0", "1", "2", "3", "4", "5", "6", "7", "8", "9"}
DigitVal(c) ==
    CASE c = "0" -> 0 [] c = "1" -> 1 [] c = "2" -> 2 [] c = "3" -> 3 [] c = "4" -> 4
      [] c = "5" -> 5 [] c = "6" -> 6 [] c = "7" -> 7 [] c = "8" -> 8 [] c = "9" -> 9
RECURSIVE ParseDigits(_)
ParseDigits(s) ==
    IF Len(s) = 0 THEN 0
    ELSE 10 * ParseDigits(SubSeq(s, 1, Len(s) - 1)) + DigitVal(s[Len(s)])
IsNumeric(id) ==
    id.kind = "int" \/ (Len(id.s) > 0 /\ \A i \in DOMAIN id.s : id.s[i] \in DigitChars)
ToInt(id) == IF id.kind = "int" THEN id.n ELSE ParseDigits(id.s)

\* Variant: force is tested before the owner.
Decision_ForceBeforeOwner(d, up, user, a, f) ==
    IF up.kind = "None" THEN
        IF a THEN "upload"
        ELSE IF "revision" \notin d.keys THEN "KeyError"
        ELSE "confirm_upload"
    ELSE IF up.kind = "error" THEN "KeyError"
    ELSE IF f THEN "update"
    ELSE IF ~SameOwner(up.author, user) THEN "skip"
    ELSE IF a THEN
        IF "revision" \notin d.keys THEN "KeyError"
        ELSE IF up.revision # d.revision THEN "update"
        ELSE IF "files" \notin d.keys THEN "KeyError"
        ELSE IF SameVersion(up, d) THEN "skip"
        ELSE "update"
    ELSE IF "revision" \notin d.keys \/ "files" \notin d.keys THEN "KeyError"
    ELSE "confirm_update"

\* Variant: auto is tested before force.
Decision_AutoBeforeForce(d, up, user, a, f) ==
    IF up.kind = "None" THEN
        IF a THEN "upload"
        ELSE IF "revision" \notin d.keys THEN "KeyError"
        ELSE "confirm_upload"
    ELSE IF up.kind = "error" THEN "KeyError"
    ELSE IF ~SameOwner(up.author, user) THEN "skip"
    ELSE IF a THEN
        IF "revision" \notin d.keys THEN "KeyError"
        ELSE IF up.revision # d.revision THEN "update"
        ELSE IF "files" \notin d.keys THEN "KeyError"
        ELSE IF SameVersion(up, d) THEN "skip"
        ELSE "update"
    ELSE IF f THEN "update"
    ELSE IF "revision" \notin d.keys \/ "files" \notin d.keys THEN "KeyError"
    ELSE "confirm_update"

\* The branch push takes once the lookup has returned (lines 259-299).
Decision(d, up, user, a, f) ==
    IF up.kind = "None" THEN
        IF a THEN "upload"
        ELSE IF "revision" \notin d.keys THEN "KeyError"
        ELSE "confirm_upload"
    ELSE IF up.kind = "error" THEN "KeyError"
    ELSE IF ~SameOwner(up.author, user) THEN "skip"
    ELSE IF f THEN "update"
    ELSE IF a THEN
        IF "revision" \notin d.keys THEN "KeyError"
        ELSE IF up.revision # d.revision THEN "update"
        ELSE IF "files" \notin d.keys THEN "KeyError"
        ELSE IF SameVersion(up, d) THEN "skip"
        ELSE "update"
    ELSE IF "revision" \notin d.keys \/ "files" \notin d.keys THEN "KeyError"
    ELSE "confirm_update"

\* One entry of the request log.
Request(op, path, target, kind, id, art, fls, patch, matches) ==
    [op |-> op, path |-> path, target_id |-> target, kind |-> kind, id |-> id,
     artwork |-> art, files |-> fls, patch |-> patch, matches |-> matches]
ListRequest(kind, n) ==
    Request("GET /patches/", "", NoTarget, kind, IdNum(0), IntVal(0), <<>>, 0,
            IF kind = "ok" THEN n ELSE 0)
PatchRequest(kind, patch) ==
    Request("GET /patches/{id}", "", NoTarget, kind, IdNum(0), IntVal(0), <<>>, patch, 0)
FileRequest(path, target, kind, id) ==
    Request("POST /files", path, target, kind,
            IF kind = "ok" THEN id ELSE IdNum(0), IntVal(0), <<>>, 0, 0)
EntityRequest(op, kind, d, patch) ==
    Request(op, "", NoTarget, kind, IdNum(0), d.artwork, d.files, patch, 0)

\* Variant: of several matches the first is taken.
MatchResult_First(n) == IF n = 0 THEN "None" ELSE "fetch"

\* get, lines 166-178: what the list of matches leads to.
MatchResult(n) ==
    IF n = 0 THEN "None"
    ELSE IF n > 1 THEN "PatchstorageException"
    ELSE "fetch"

\* Variant: the new id is put in front.
Collect_Prepend(ids, id) == <<ToInt(id)>> \o ids

\* upload line 195 / update line 229: file_ids.append(int(file_id))
Collect(ids, id) == Append(ids, ToInt(id))

\* Variant: the artwork field keeps the local path.
ResolvedRecord_KeepsArtworkPath(d, art, ids) ==
    [d EXCEPT !.files = [i \in DOMAIN ids |-> IntVal(ids[i])]]

\* Variant: the artwork id is sent among the file ids as well.
ResolvedRecord_ArtworkAmongFiles(d, art, ids) ==
    [d EXCEPT !.artwork = IntVal(ToInt(art)),
              !.files = <<IntVal(ToInt(art))>> \o [i \in DOMAIN ids |-> IntVal(ids[i])]]

\* upload lines 197-198 / update lines 231-232: the record as it is sent.
ResolvedRecord(d, art, ids) ==
    [d EXCEPT !.artwork = IntVal(ToInt(art)),
              !.files = [i \in DOMAIN ids |-> IntVal(ids[i])]]

DistFolders == 1..MaxBundles

\* os.listdir(PATH_DIST), Path.iterdir(): taken in ascending order.
RECURSIVE listdir(_)
listdir(d) ==
    IF d = {} THEN <<>>
    ELSE LET m == CHOOSE x \in d : \A y \in d : x <= y
         IN <<m>> \o listdir(d \ {m})

\* Variant: an absent token is not noticed.
NotAuthenticated_Never(token) == FALSE

\* upload_file 93-94, get 123-124, upload 185-186, update 217-218:
\* "if Patchstorage.PS_API_TOKEN is None: raise PatchstorageException"
NotAuthenticated(token) == token = "None"

\* Variant: only the presence of the key is tested.
BadUids_KeyOnly(rec) == "uids" \notin rec.keys

\* push line 252: 'uids' not in data or len(data['uids']) == 0
BadUids(rec) == "uids" \notin rec.keys \/ Len(rec.uids) = 0

\* ---------------------------------------------------------------- actions
\* The prepare command is not run: PATH_DIST is as an earlier pass left it.
PrepareIdle ==
    /\ dist = [f \in DistFolders |-> EarlierContent(f)]
    /\ plugins = NoPlugins
    /\ targets = <<>>
    /\ arg = 0
    /\ ppc = "idle"
    /\ pexc = "None"
    /\ multi_bundles_map = <<>>
    /\ reported = {}
    /\ bi = 0
    /\ prepared = 0
    /\ failed = 0
    /\ printed = FALSE
    /\ prep_outcome = <<>>
    /\ patchstorage_data = NoRecord

\* The push command before push_bundles is entered.
PushInit ==
    /\ PS_API_TOKEN = "None"
    /\ auth_result = "none"
    /\ auth_calls = 0
    /\ plugin_name \in {0, 1, MaxBundles + 1}
    /\ username \in UserNames
    /\ auto \in BOOLEAN
    /\ force \in BOOLEAN
    /\ pc = "auth"
    /\ run = "running"
    /\ exc = "None"
    /\ plugins_folders = <<>>
    /\ idx = 0
    /\ record = NoData
    /\ data = NoData
    /\ uploaded = NoneEntity
    /\ mode = "none"
    /\ prompted = FALSE
    /\ answer = "none"
    /\ held = NoneEntity
    /\ artwork_id = IdNum(0)
    /\ file_ids = <<>>
    /\ log = <<>>
    /\ outcome = <<>>

Init == PushInit /\ PrepareIdle

\* An exception leaves push: push_bundles catches PatchstorageException and
\* goes on with the next folder (lines 486-490); any other exception leaves
\* push_bundles as well and ends the run.
Raise(e) ==
    /\ exc' = e
    /\ IF e = "PatchstorageException"
       THEN /\ outcome' = [outcome EXCEPT ![idx] = "Failed"]
            /\ pc' = "loop"
            /\ run' = run
       ELSE /\ outcome' = [outcome EXCEPT ![idx] = "Aborted"]
            /\ pc' = "done"
            /\ run' = "aborted"

\* push returns normally.
Return(o) ==
    /\ exc' = exc
    /\ outcome' = [outcome EXCEPT ![idx] = o]
    /\ pc' = "loop"
    /\ run' = run

\* Execution stays inside push.
Goto(p) ==
    /\ exc' = exc
    /\ outcome' = outcome
    /\ pc' = p
    /\ run' = run

Inputs == <<plugin_name, username, auto, force>>

\* The session: written by Auth only.
Session == <<PS_API_TOKEN, auth_result, auth_calls>>

\* Variant: a failed authentication is reported and the run goes on.
Auth_Continues ==
    /\ pc = "auth"
    /\ \E kind \in ResponseKinds, tok \in {"None", "tok"} :
         LET e == RequestError(kind) IN
         /\ auth_result' = kind
         /\ auth_calls' = auth_calls + 1
         /\ pc' = "folders"
         /\ run' = run
         /\ IF e # "None" \/ kind = "bad_shape"
            THEN /\ exc' = (IF e # "None" THEN e ELSE "KeyError")
                 /\ PS_API_TOKEN' = PS_API_TOKEN
            ELSE /\ PS_API_TOKEN' = tok
                 /\ exc' = exc
    /\ UNCHANGED <<PrepareVars, held, Inputs, plugins_folders, idx, record, data, uploaded, mode,
                   prompted, answer, artwork_id, file_ids, log, outcome>>

\* push_bundles line 473, Patchstorage.auth: outside the try block.
Auth ==
    /\ pc = "auth"
    /\ \E kind \in ResponseKinds, tok \in {"None", "tok"} :
         LET e == RequestError(kind) IN
         /\ auth_result' = kind
         /\ auth_calls' = auth_calls + 1
         /\ IF e # "None" \/ kind = "bad_shape"
            THEN /\ exc' = (IF e # "None" THEN e ELSE "KeyError")
                 /\ run' = "aborted"
                 /\ pc' = "done"
                 /\ PS_API_TOKEN' = PS_API_TOKEN
            ELSE /\ PS_API_TOKEN' = tok
                 /\ pc' = "folders"
                 /\ UNCHANGED <<exc, run>>
    /\ UNCHANGED <<PrepareVars, held, Inputs, plugins_folders, idx, record, data, uploaded, mode, prompted, answer,
                   artwork_id, file_ids, log, outcome>>

\* push_bundles lines 475-483.
ListFolders ==
    /\ pc = "folders"
    /\ IF plugin_name # 0 /\ plugin_name \notin DOMAIN dist
       THEN /\ exc' = "Exception"
            /\ run' = "aborted"
            /\ pc' = "done"
            /\ UNCHANGED <<plugins_folders, outcome>>
       ELSE /\ plugins_folders' =
                 (IF plugin_name # 0 THEN <<plugin_name>> ELSE listdir(DOMAIN dist))
            /\ outcome' = [i \in 1..(IF plugin_name # 0 THEN 1 ELSE Cardinality(DOMAIN dist))
                             |-> "Unprocessed"]
            /\ pc' = "loop"
            /\ UNCHANGED <<exc, run>>
    /\ UNCHANGED <<PrepareVars, held, Session, Inputs, idx, record, data, uploaded, mode, prompted, answer,
                   artwork_id, file_ids, log>>

\* Variant: every folder is pushed under a session of its own.
NextFolder_Reauth ==
    /\ pc = "loop"
    /\ IF idx < Len(plugins_folders)
       THEN /\ idx' = idx + 1
            /\ pc' = "load"
            /\ run' = run
            /\ exc' = "None"
            /\ record' = NoData
            /\ data' = NoData
            /\ uploaded' = NoneEntity
            /\ mode' = "none"
            /\ prompted' = FALSE
            /\ answer' = "none"
            /\ artwork_id' = IdNum(0)
            /\ file_ids' = <<>>
            /\ log' = <<>>
            /\ auth_calls' = auth_calls + 1
            /\ \E tok \in {"None", "tok"} : PS_API_TOKEN' = tok
            /\ auth_result' = auth_result
       ELSE /\ pc' = "done"
            /\ run' = "finished"
            /\ UNCHANGED <<Session, idx, exc, record, data, uploaded, mode, prompted, answer,
                           artwork_id, file_ids, log>>
    /\ UNCHANGED <<PrepareVars, held, Inputs, plugins_folders, outcome>>

\* push_bundles line 485: the next folder, or the end of the run.
NextFolder ==
    /\ pc = "loop"
    /\ IF idx < Len(plugins_folders)
       THEN /\ idx' = idx + 1
            /\ pc' = "load"
            /\ run' = run
            /\ exc' = "None"
            /\ record' = NoData
            /\ data' = NoData
            /\ uploaded' = NoneEntity
            /\ mode' = "none"
            /\ prompted' = FALSE
            /\ answer' = "none"
            /\ artwork_id' = IdNum(0)
            /\ file_ids' = <<>>
            /\ log' = <<>>
       ELSE /\ pc' = "done"
            /\ run' = "finished"
            /\ UNCHANGED <<idx, exc, record, data, uploaded, mode, prompted, answer, artwork_id,
                           file_ids, log>>
    /\ UNCHANGED <<PrepareVars, held, Session, Inputs, plugins_folders, outcome>>

\* What push can find: any record file for a folder pushed for the first
\* time, the same file when the folder is pushed again; any list and entity
\* from the service, or the one entity it is known to hold.
FolderRecords == IF held.kind = "entity" THEN {record} ELSE RecordFiles
ServiceMatches == IF held.kind = "entity" THEN {1} ELSE MatchCounts
ServiceEntities == IF held.kind = "entity" THEN {held} ELSE Entities

\* push lines 249-254: read the record and require a non-empty uids list.
LoadRecord ==
    /\ pc = "load"
    /\ \E rec \in FolderRecords :
         /\ record' = rec
         /\ IF rec.state = "missing" THEN Raise("FileNotFoundError") /\ data' = data
            ELSE IF rec.state = "bad_json" THEN Raise("JSONDecodeError") /\ data' = data
            ELSE /\ data' = rec
                 /\ IF BadUids(rec)
                    THEN Raise("PatchstorageException")
                    ELSE Goto("get")
    /\ UNCHANGED <<PrepareVars, held, Session, Inputs, plugins_folders, idx, uploaded, mode,
                   prompted, answer, artwork_id, file_ids, log>>

\* Patchstorage.get(uids=...), lines 122-169: the list request.
Get ==
    /\ pc = "get"
    /\ IF NotAuthenticated(PS_API_TOKEN)
       THEN Raise("PatchstorageException") /\ UNCHANGED <<log, uploaded>>
       ELSE \E kind \in ResponseKinds, n \in ServiceMatches :
              LET e == RequestError(kind) IN
              /\ log' = Append(log, ListRequest(kind, n))
              /\ uploaded' = uploaded
              /\ IF e # "None" THEN Raise(e)
                 ELSE IF kind = "bad_shape" \/ MatchResult(n) = "None" THEN Goto("decide")
                 ELSE IF MatchResult(n) = "fetch" THEN Goto("get_by_id")
                 ELSE Raise(MatchResult(n))
    /\ UNCHANGED <<PrepareVars, held, Session, Inputs, plugins_folders, idx, record, data, mode,
                   prompted, answer, artwork_id, file_ids>>

\* Patchstorage.get, lines 171-176: fetch the one match; r.ok is not tested.
GetById ==
    /\ pc = "get_by_id"
    /\ \E kind \in ResponseKinds, ent \in ServiceEntities :
         /\ log' = Append(log, PatchRequest(kind, PatchId))
         /\ IF send_request(kind) # "None"
            THEN Raise(send_request(kind)) /\ uploaded' = uploaded
            ELSE IF decode_json_response(kind) # "None"
            THEN Raise(decode_json_response(kind)) /\ uploaded' = uploaded
            ELSE /\ uploaded' = (IF kind = "ok" THEN ent ELSE ErrorBody)
                 /\ Goto("decide")
    /\ UNCHANGED <<PrepareVars, held, Session, Inputs, plugins_folders, idx, record, data, mode,
                   prompted, answer, artwork_id, file_ids>>

\* push lines 259-299: choose the branch.
Decide ==
    /\ pc = "decide"
    /\ LET d == Decision(data, uploaded, username, auto, force) IN
       CASE d = "KeyError" -> Raise("KeyError") /\ UNCHANGED <<mode, prompted>>
         [] d = "skip" -> Return("Skipped") /\ UNCHANGED <<mode, prompted>>
         [] d = "upload" -> Goto("artwork") /\ mode' = "upload" /\ prompted' = prompted
         [] d = "update" -> Goto("artwork") /\ mode' = "update" /\ prompted' = prompted
         [] d = "confirm_upload" -> Goto("confirm") /\ mode' = "upload" /\ prompted' = TRUE
         [] d = "confirm_update" -> Goto("confirm") /\ mode' = "update" /\ prompted' = TRUE
    /\ UNCHANGED <<PrepareVars, held, Session, Inputs, plugins_folders, idx, record, data, uploaded,
                   answer,
                   artwork_id, file_ids, log>>

\* Variant: the answer is not looked at.
Confirm_AnswerIgnored ==
    /\ pc = "confirm"
    /\ \E yes \in BOOLEAN :
         /\ answer' = (IF yes THEN "yes" ELSE "no")
         /\ Goto("artwork")
    /\ UNCHANGED <<PrepareVars, held, Session, Inputs, plugins_folders, idx, record, data, uploaded,
                   mode, prompted, artwork_id, file_ids, log>>

\* click.confirm at lines 265 and 295: the user's answer.
Confirm ==
    /\ pc = "confirm"
    /\ \E yes \in BOOLEAN :
         /\ answer' = (IF yes THEN "yes" ELSE "no")
         /\ IF yes THEN Goto("artwork") ELSE Return("Skipped")
    /\ UNCHANGED <<PrepareVars, held, Session, Inputs, plugins_folders, idx, record, data, uploaded,
                   mode, prompted, artwork_id, file_ids, log>>

\* upload lines 181-188 / update lines 217-222, with upload_file (89-119).
UploadArtwork ==
    /\ pc = "artwork"
    /\ IF mode = "upload" /\ ("artwork" \notin data.keys \/ "files" \notin data.keys)
       THEN Raise("AssertionError") /\ UNCHANGED <<log, artwork_id>>
       ELSE IF NotAuthenticated(PS_API_TOKEN)
       THEN Raise("PatchstorageException") /\ UNCHANGED <<log, artwork_id>>
       ELSE IF "artwork" \notin data.keys
       THEN Raise("KeyError") /\ UNCHANGED <<log, artwork_id>>
       ELSE \E kind \in ResponseKinds, id \in FileIdResponses :
              LET e == RequestError(kind) IN
              /\ log' = Append(log, FileRequest(data.artwork.p, NoTarget, kind, id))
              /\ IF e # "None" THEN Raise(e) /\ artwork_id' = artwork_id
                 ELSE IF kind = "bad_shape" THEN Raise("KeyError") /\ artwork_id' = artwork_id
                 ELSE /\ artwork_id' = id
                      /\ IF "files" \notin data.keys THEN Raise("KeyError")
                         ELSE Goto("files")
    /\ UNCHANGED <<PrepareVars, held, Session, Inputs, plugins_folders, idx, record, data, uploaded,
                   mode, prompted, answer, file_ids>>

\* upload lines 192-195 / update lines 226-229: one pass of the file loop.
UploadFile ==
    /\ pc = "files"
    /\ Len(file_ids) < Len(data.files)
    /\ LET file == data.files[Len(file_ids) + 1] IN
       IF NotAuthenticated(PS_API_TOKEN)
       THEN Raise("PatchstorageException") /\ UNCHANGED <<log, file_ids>>
       ELSE \E kind \in ResponseKinds, id \in FileIdResponses :
         LET e == RequestError(kind) IN
         /\ log' = Append(log, FileRequest(file.p, file.target_id, kind, id))
         /\ IF e # "None" THEN Raise(e) /\ file_ids' = file_ids
            ELSE IF kind = "bad_shape" THEN Raise("KeyError") /\ file_ids' = file_ids
            ELSE IF ~IsNumeric(id) THEN Raise("ValueError") /\ file_ids' = file_ids
            ELSE file_ids' = Collect(file_ids, id) /\ Goto("files")
    /\ UNCHANGED <<PrepareVars, held, Session, Inputs, plugins_folders, idx, record, data, uploaded,
                   mode, prompted, answer, artwork_id>>

\* upload lines 197-213 / update lines 231-244, then push line 301: put the
\* ids into the record, send it, print the result.
SendEntity(op, done) ==
    /\ pc = "files"
    /\ Len(file_ids) = Len(data.files)
    /\ IF ~IsNumeric(artwork_id)
       THEN Raise("ValueError") /\ UNCHANGED <<data, log>>
       ELSE LET sent == ResolvedRecord(data, artwork_id, file_ids)
            IN /\ data' = sent
               /\ \E kind \in ResponseKinds :
                    LET e == RequestError(kind) IN
                    /\ log' = Append(log, EntityRequest(op, kind, sent, uploaded.id))
                    /\ IF e # "None" THEN Raise(e)
                       ELSE IF kind = "bad_shape" THEN Raise("KeyError")
                       ELSE Return(done)
    /\ UNCHANGED <<PrepareVars, held, Session, Inputs, plugins_folders, idx, record, uploaded, mode,
                   prompted, answer, artwork_id, file_ids>>

CreateEntity == mode = "upload" /\ SendEntity("POST /patches", "Uploaded")

UpdateEntity == mode = "update" /\ SendEntity("PUT /patches/{id}", "Updated")

Next ==
    \/ Auth
    \/ ListFolders
    \/ NextFolder
    \/ LoadRecord
    \/ Get
    \/ GetById
    \/ Decide
    \/ Confirm
    \/ UploadArtwork
    \/ UploadFile
    \/ CreateEntity
    \/ UpdateEntity

Spec == Init /\ [][Next]_vars

\* ------------------------------------------------------ pushing a folder again
\* Patchstorage.push called a second time for the last folder, with the same
\* username and flags and the record file as it was, after a push under auto
\* without force that created or updated the entity: the service now holds,
\* under the acting account, what was sent (lines 197-198 / 231-232: the
\* record with the collected ids in place of the files).
PushAgain ==
    /\ pc = "done" /\ run = "finished" /\ idx >= 1
    /\ held.kind = "None"
    /\ auto /\ ~force
    /\ outcome[idx] \in {"Uploaded", "Updated"}
    /\ \E a \in AuthorSlugs, r \in Revisions :
         /\ lower(a) = lower(username)
         /\ "revision" \in data.keys => r = data.revision
         /\ held' = Entity(a, r, Len(data.files))
    /\ pc' = "load"
    /\ run' = "running"
    /\ outcome' = [outcome EXCEPT ![idx] = "Unprocessed"]
    /\ exc' = "None"
    /\ data' = NoData
    /\ uploaded' = NoneEntity
    /\ mode' = "none"
    /\ prompted' = FALSE
    /\ answer' = "none"
    /\ artwork_id' = IdNum(0)
    /\ file_ids' = <<>>
    /\ log' = <<>>
    /\ UNCHANGED <<PrepareVars, Session, Inputs, plugins_folders, idx, record>>

RepeatNext == Next \/ PushAgain

RepeatSpec == Init /\ [][RepeatNext]_vars

\* ------------------------------------------------------ the prepare command
PushVars == <<Session, Inputs, held, pc, run, exc, plugins_folders, idx, record, data,
              uploaded, mode, prompted, answer, artwork_id, file_ids, log, outcome>>

\* An exception leaves the command: cli() at line 531 prints it or fails.
Fail(e) ==
    /\ pexc' = e
    /\ ppc' = "end"

\* Variant: the builds of a package are replaced by the one found last.
Insert_Replace(cands, p, info) ==
    IF \E i \in DOMAIN cands : cands[i].package_name = p
    THEN [i \in DOMAIN cands |->
            IF cands[i].package_name = p
            THEN [cands[i] EXCEPT !.targets_info = <<info>>]
            ELSE cands[i]]
    ELSE Append(cands, [package_name |-> p, targets_info |-> <<info>>])

\* scan_plugins_directory lines 371-380: candidates[p_folder].append(...),
\* with a new list for a name seen for the first time.
Insert(cands, p, info) ==
    IF \E i \in DOMAIN cands : cands[i].package_name = p
    THEN [i \in DOMAIN cands |->
            IF cands[i].package_name = p
            THEN [cands[i] EXCEPT !.targets_info = Append(@, info)]
            ELSE cands[i]]
    ELSE Append(cands, [package_name |-> p, targets_info |-> <<info>>])

\* scan_plugins_directory lines 364-380: the entries of one target folder;
\* an entry that is not a directory is passed over.
RECURSIVE ScanFolder(_, _, _, _)
ScanFolder(cands, t, folder, ps) ==
    IF ps = <<>> THEN cands
    ELSE LET p == Head(ps)
             info == [slug |-> t.slug, id |-> t.id, path |-> <<t.slug, p>>]
         IN ScanFolder(IF folder.entry[p] = "dir" THEN Insert(cands, p, info) ELSE cands,
                       t, folder, Tail(ps))

\* scan_plugins_directory lines 357-380: the targets in their order; a target
\* without a folder gets a warning and is passed over.
RECURSIVE Candidates(_, _, _)
Candidates(cands, layout, ts) ==
    IF ts = <<>> THEN cands
    ELSE LET t == Head(ts)
         IN Candidates(IF ~layout.folder[t.slug].exists THEN cands
                       ELSE ScanFolder(cands, t, layout.folder[t.slug], listdir(Packages)),
                       layout, Tail(ts))

\* scan_plugins_directory line 390: except (BundleBadContents, PluginFieldMissing)
ScanCatches(e) == e \in {"BundleBadContents", "PluginFieldMissing"}

\* Variant: only BundleBadContents is caught.
PrepareCatches_BadContentsOnly(e) == e = "BundleBadContents"

\* prepare_bundle line 423: except (BundleBadContents, PluginFieldMissing)
PrepareCatches(e) == e \in {"BundleBadContents", "PluginFieldMissing"}

Names(m) == { m[i].package_name : i \in DOMAIN m }

\* Lines 385-393: the exception of the first candidate, in the order of the
\* candidates, whose basic validation raises one that is not caught.
Uncaught(cands, res) ==
    LET bad == { i \in DOMAIN cands :
                   /\ res[cands[i].package_name] # "None"
                   /\ ~ScanCatches(res[cands[i].package_name]) }
    IN IF bad = {} THEN "None"
       ELSE res[cands[CHOOSE i \in bad : \A j \in bad : i <= j].package_name]

\* PluginManager.__init__, lines 315-327: the targets of the platform and
\* the three lookup files.
NewManager ==
    /\ ppc = "new"
    /\ \E e \in {"None", "ConnectionError", "PatchstorageException", "AssertionError",
                 "KeyError", "PluginManagerException"} :
         IF e # "None" THEN Fail(e) /\ targets' = targets
         ELSE /\ \E ts \in PlatformTargets : targets' = ts
              /\ ppc' = "scan"
              /\ pexc' = pexc
    /\ UNCHANGED <<dist, plugins, arg, multi_bundles_map, reported, bi, prepared, failed,
                   printed, prep_outcome, patchstorage_data, PushVars>>

\* scan_plugins_directory, lines 348-398; validate_basic_files of every
\* candidate ends well or raises one of the bundles module's exceptions.
scan_plugins_directory ==
    /\ ppc = "scan"
    /\ IF ~plugins.exists
       THEN Fail("PluginManagerException") /\ UNCHANGED <<multi_bundles_map, reported>>
       ELSE LET cands == Candidates(<<>>, plugins, targets) IN
            \E res \in [Names(cands) -> validate_basic_files] :
              LET isok(c) == res[c.package_name] = "None" IN
              IF Uncaught(cands, res) # "None"
              THEN Fail(Uncaught(cands, res)) /\ UNCHANGED <<multi_bundles_map, reported>>
              ELSE /\ multi_bundles_map' = SelectSeq(cands, isok)
                   /\ reported' = { n \in Names(cands) : res[n] # "None" }
                   /\ ppc' = "clean"
                   /\ pexc' = pexc
    /\ UNCHANGED <<dist, plugins, targets, arg, bi, prepared, failed, printed,
                   prep_outcome, patchstorage_data, PushVars>>

\* The scan on its own: a manager over every layout of PATH_PLUGINS and
\* every target list.
ScanInit ==
    /\ PushInit
    /\ plugin_name = 0 /\ username = <<"b", "a">> /\ auto /\ ~force
    /\ dist = [f \in DistFolders |-> EarlierContent(f)]
    /\ plugins \in Layouts \cup {NoPlugins}
    /\ targets \in PlatformTargets
    /\ arg = 0
    /\ ppc = "scan"
    /\ pexc = "None"
    /\ multi_bundles_map = <<>>
    /\ reported = {}
    /\ bi = 0
    /\ prepared = 0
    /\ failed = 0
    /\ printed = FALSE
    /\ prep_outcome = <<>>
    /\ patchstorage_data = NoRecord

ScanNext == scan_plugins_directory

ScanSpec == ScanInit /\ [][ScanNext]_vars

\* do_cleanup lines 339-344: what a shutil.rmtree that raised OSError can
\* have left of a folder of PATH_DIST (any part of it may be gone already).
Remains(c) ==
    { Content(a, t, j) : a \in {c.artwork, FALSE}, t \in SUBSET c.tarballs,
                         j \in {c.json, NoRecord} }

\* Variant: a folder that is there is kept as it is.
WithEmptyFolder_KeepExisting(d, p) ==
    [f \in DOMAIN d \cup {p} |-> IF f \in DOMAIN d THEN d[f] ELSE EmptyFolder]

\* do_cleanup lines 339-346 on PATH_DIST / package_name: the folder is
\* removed if it is there, and made anew, empty.
WithEmptyFolder(d, p) ==
    [f \in DOMAIN d \cup {p} |-> IF f = p THEN EmptyFolder ELSE d[f]]

\* Variant: PATH_DIST is cleared only for 'all'.
CleanDist_OnlyForAll ==
    /\ ppc = "clean"
    /\ \/ /\ dist' = (IF arg = 0 THEN [f \in {} |-> EmptyFolder] ELSE dist)
          /\ prep_outcome' = [i \in DOMAIN multi_bundles_map |-> "Unprepared"]
          /\ ppc' = (IF arg = 0 THEN "bundles" ELSE "single")
          /\ pexc' = pexc
       \/ /\ DOMAIN dist # {}
          /\ \E keep \in SUBSET DOMAIN dist : dist' = [f \in keep |-> dist[f]]
          /\ prep_outcome' = prep_outcome
          /\ Fail("PluginManagerException")
    /\ UNCHANGED <<plugins, targets, arg, multi_bundles_map, reported, bi, prepared, failed,
                   printed, patchstorage_data, PushVars>>

\* prepare line 505, manager.do_cleanup(PATH_DIST): the whole output
\* directory is removed and made anew, for 'all' and for one package alike;
\* a removal that fails ends the command and leaves some of the folders.
CleanDist ==
    /\ ppc = "clean"
    /\ \/ /\ dist' = [f \in {} |-> EmptyFolder]
          /\ prep_outcome' = [i \in DOMAIN multi_bundles_map |-> "Unprepared"]
          /\ ppc' = (IF arg = 0 THEN "bundles" ELSE "single")
          /\ pexc' = pexc
       \/ /\ DOMAIN dist # {}
          /\ \E keep \in SUBSET DOMAIN dist : dist' = [f \in keep |-> dist[f]]
          /\ prep_outcome' = prep_outcome
          /\ Fail("PluginManagerException")
    /\ UNCHANGED <<plugins, targets, arg, multi_bundles_map, reported, bi, prepared, failed,
                   printed, patchstorage_data, PushVars>>

\* prepare lines 510-511, get_multi_bundle lines 400-403.
get_multi_bundle ==
    /\ ppc = "single"
    /\ IF arg \notin Names(multi_bundles_map)
       THEN Fail("PluginManagerException") /\ bi' = bi
       ELSE /\ bi' = CHOOSE i \in DOMAIN multi_bundles_map :
                        multi_bundles_map[i].package_name = arg
            /\ ppc' = "validate"
            /\ pexc' = pexc
    /\ UNCHANGED <<dist, plugins, targets, arg, multi_bundles_map, reported, prepared,
                   failed, printed, prep_outcome, patchstorage_data, PushVars>>

\* prepare_bundles lines 409-417: the next bundle of the map, or the two
\* counters printed after the last.
prepare_bundles ==
    /\ ppc = "bundles"
    /\ IF bi < Len(multi_bundles_map)
       THEN /\ bi' = bi + 1
            /\ ppc' = "validate"
            /\ printed' = printed
       ELSE /\ printed' = TRUE
            /\ ppc' = "end"
            /\ bi' = bi
    /\ UNCHANGED <<dist, plugins, targets, arg, pexc, multi_bundles_map, reported, prepared,
                   failed, prep_outcome, patchstorage_data, PushVars>>

\* The bundle in work and its folder in PATH_DIST.
Bundle == multi_bundles_map[bi]
Pkg == Bundle.package_name

\* prepare_bundle returns (lines 421-426): prepare_bundles counts (410-414),
\* prepare for one package drops the result (line 512).
BundleReturns(ok) ==
    /\ prep_outcome' = [prep_outcome EXCEPT ![bi] = IF ok THEN "Prepared" ELSE "Failed"]
    /\ pexc' = pexc
    /\ IF arg = 0
       THEN /\ prepared' = (IF ok THEN prepared + 1 ELSE prepared)
            /\ failed' = (IF ok THEN failed ELSE failed + 1)
            /\ ppc' = "bundles"
       ELSE /\ UNCHANGED <<prepared, failed>>
            /\ ppc' = "end"

\* An exception leaves _prepare_bundle: prepare_bundle catches two kinds
\* (line 423), anything else leaves prepare_bundles and the command.
BundleRaises(e) ==
    IF PrepareCatches(e) THEN BundleReturns(FALSE)
    ELSE /\ Fail(e)
         /\ prep_outcome' = [prep_outcome EXCEPT ![bi] = "Aborted"]
         /\ UNCHANGED <<prepared, failed>>

\* Execution stays inside _prepare_bundle.
Step(p) ==
    /\ ppc' = p
    /\ UNCHANGED <<pexc, prep_outcome, prepared, failed>>

\* _prepare_bundle line 437: multi_bundle.validate().
Validate ==
    /\ ppc = "validate"
    /\ \E e \in validate : IF e = "None" THEN Step("metadata") ELSE BundleRaises(e)
    /\ UNCHANGED <<dist, plugins, targets, arg, multi_bundles_map, reported, bi, printed,
                   patchstorage_data, PushVars>>

\* _prepare_bundle lines 439-448: the metadata, without artwork and files.
ResolveMetadata ==
    /\ ppc = "metadata"
    /\ \E e \in get_patchstorage_data :
         IF e = "None"
         THEN /\ patchstorage_data' =
                   [Record(AllKeys \ {"artwork", "files"}, <<"u1">>, 1, <<>>)
                      EXCEPT !.artwork = Path("")]
              /\ Step("cleanup")
         ELSE BundleRaises(e) /\ patchstorage_data' = patchstorage_data
    /\ UNCHANGED <<dist, plugins, targets, arg, multi_bundles_map, reported, bi, printed,
                   PushVars>>

\* _prepare_bundle line 450, self.do_cleanup(path_plugins_dist): an existing
\* folder is removed, which can fail with PluginManagerException, and the
\* folder is made anew.
CleanBundleDir ==
    /\ ppc = "cleanup"
    /\ \/ /\ dist' = WithEmptyFolder(dist, Pkg)
          /\ Step("artwork")
       \/ /\ Pkg \in DOMAIN dist
          /\ \E c \in Remains(dist[Pkg]) : dist' = [dist EXCEPT ![Pkg] = c]
          /\ BundleRaises("PluginManagerException")
    /\ UNCHANGED <<plugins, targets, arg, multi_bundles_map, reported, bi, printed,
                   patchstorage_data, PushVars>>

\* _prepare_bundle lines 456-457: artwork.png in the bundle's folder.
CreateArtwork ==
    /\ ppc = "artwork"
    /\ \E e \in create_artwork :
         IF e = "None"
         THEN dist' = [dist EXCEPT ![Pkg].artwork = TRUE] /\ Step("tarballs")
         ELSE dist' = dist /\ BundleRaises(e)
    /\ UNCHANGED <<plugins, targets, arg, multi_bundles_map, reported, bi, printed,
                   patchstorage_data, PushVars>>

\* _prepare_bundle lines 459-460: one archive per build, in their order; a
\* failure leaves the archives made before it.
CreateTarballs ==
    /\ ppc = "tarballs"
    /\ \E e \in create_tarballs, k \in 0..Len(Bundle.targets_info) :
         /\ e = "None" <=> k = Len(Bundle.targets_info)
         /\ dist' = [dist EXCEPT ![Pkg].tarballs =
                        @ \cup { Bundle.targets_info[i].slug : i \in 1..k }]
         /\ IF e = "None" THEN Step("write") ELSE BundleRaises(e)
    /\ UNCHANGED <<plugins, targets, arg, multi_bundles_map, reported, bi, printed,
                   patchstorage_data, PushVars>>

\* The descriptors create_tarballs returns: path and target id per build.
tars_info(b) ==
    [i \in DOMAIN b.targets_info |->
        File(<<b.package_name, b.targets_info[i].slug>>, b.targets_info[i].id)]

\* _prepare_bundle lines 464-466: open(path_ps_json, 'w') and one write of
\* the whole record; what was in the file before is gone.
WrittenRecord(old, new) == new

\* _prepare_bundle lines 462-469: artwork and files put into the metadata,
\* the record written, prepare_bundle returns True.
WriteRecord ==
    /\ ppc = "write"
    /\ patchstorage_data' =
         [patchstorage_data EXCEPT !.keys = @ \cup {"artwork", "files"},
                                   !.artwork = Path("artwork.png"),
                                   !.files = tars_info(Bundle)]
    /\ dist' = [dist EXCEPT ![Pkg].json = WrittenRecord(@, patchstorage_data')]
    /\ BundleReturns(TRUE)
    /\ UNCHANGED <<plugins, targets, arg, multi_bundles_map, reported, bi, printed, PushVars>>

_prepare_bundle ==
    \/ Validate
    \/ ResolveMetadata
    \/ CleanBundleDir
    \/ CreateArtwork
    \/ CreateTarballs
    \/ WriteRecord

\* The push command for all folders, entered after the prepare command ended:
\* authentication and the listing of PATH_DIST.
PushAll ==
    /\ ppc = "end"
    /\ plugin_name = 0
    /\ Auth \/ ListFolders

\* The prepare command, for 'all', for a package and for an unknown name,
\* over an output directory that an earlier pass filled.
PrepareInit ==
    /\ PushInit
    /\ plugin_name = 0 /\ username = <<"b", "a">> /\ auto /\ ~force
    /\ dist = [f \in DistFolders |-> EarlierContent(f)]
    /\ plugins \in CommandLayouts \cup {NoPlugins}
    /\ targets = <<>>
    /\ arg \in {0} \cup Packages \cup {MaxBundles + 1}
    /\ ppc = "new"
    /\ pexc = "None"
    /\ multi_bundles_map = <<>>
    /\ reported = {}
    /\ bi = 0
    /\ prepared = 0
    /\ failed = 0
    /\ printed = FALSE
    /\ prep_outcome = <<>>
    /\ patchstorage_data = NoRecord

PrepareNext ==
    \/ NewManager
    \/ scan_plugins_directory
    \/ CleanDist
    \/ get_multi_bundle
    \/ prepare_bundles
    \/ _prepare_bundle
    \/ PushAll

PrepareSpec == PrepareInit /\ [][PrepareNext]_vars

\* prepare_bundle called for a bundle of a scanned manager, over an output
\* directory that may hold the folder of an earlier pass.
BundleInit ==
    /\ PushInit
    /\ plugin_name = 0 /\ username = <<"b", "a">> /\ auto /\ ~force
    /\ plugins \in CommandLayouts
    /\ targets \in PlatformTargets
    /\ multi_bundles_map = Candidates(<<>>, plugins, targets)
    /\ bi \in DOMAIN multi_bundles_map
    /\ arg = multi_bundles_map[bi].package_name
    /\ dist \in { [f \in S |-> EarlierContent(f)] : S \in SUBSET Packages }
    /\ ppc = "validate"
    /\ pexc = "None"
    /\ reported = {}
    /\ prepared = 0
    /\ failed = 0
    /\ printed = FALSE
    /\ prep_outcome = [i \in DOMAIN multi_bundles_map |-> "Unprepared"]
    /\ patchstorage_data = NoRecord

BundleSpec == BundleInit /\ [][_prepare_bundle]_vars

\* ---------------------------------------------------- the client on its own
\* Patchstorage's static methods called directly, with or without a session:
\* get(uids=...), upload(folder, data), update(folder, data, id) and
\* upload_file(path, target_id) for the first file of a record.
ClientCalls == {"get", "upload", "update", "upload_file"}

ClientInit ==
    /\ PS_API_TOKEN \in {"None", "tok"}
    /\ auth_result = "none"
    /\ auth_calls = 0
    /\ PrepareIdle
    /\ plugin_name = 1
    /\ username \in UserNames
    /\ auto = TRUE
    /\ force = FALSE
    /\ run = "running"
    /\ exc = "None"
    /\ plugins_folders = <<1>>
    /\ idx = 1
    /\ outcome = <<"Unprocessed">>
    /\ prompted = FALSE
    /\ answer = "none"
    /\ held = NoneEntity
    /\ artwork_id = IdNum(0)
    /\ file_ids = <<>>
    /\ log = <<>>
    /\ \E call \in ClientCalls :
         /\ pc = (CASE call = "get" -> "get"
                    [] call = "upload_file" -> "files"
                    [] OTHER -> "artwork")
         /\ mode = (CASE call = "get" -> "none"
                      [] call = "update" -> "update"
                      [] OTHER -> "upload")
         /\ record \in (ValidRecords \cup DefectiveRecords)
         /\ data = record
         /\ call = "upload_file" => "files" \in record.keys /\ Len(record.files) >= 1
         /\ uploaded \in (IF call = "update" THEN Entities ELSE {NoneEntity})

ClientNext ==
    \/ Get
    \/ GetById
    \/ UploadArtwork
    \/ UploadFile
    \/ CreateEntity
    \/ UpdateEntity

ClientSpec == ClientInit /\ [][ClientNext]_vars

\* ------------------------------------------------------ claim vocabulary
IsUpload(e) == e.op = "POST /files"
IsCreate(e) == e.op = "POST /patches"
IsUpdate(e) == e.op = "PUT /patches/{id}"
IsWrite(e)  == IsUpload(e) \/ IsCreate(e) \/ IsUpdate(e)
Uploads == SelectSeq(log, IsUpload)
Creates == SelectSeq(log, IsCreate)
Updates == SelectSeq(log, IsUpdate)
NoWrites == \A i \in DOMAIN log : ~IsWrite(log[i])

\* The bundle at idx has reached its terminal state.
Ended == idx >= 1 /\ pc \in {"loop", "done"}
Result == outcome[idx]

SameLetter(x, y) == x = y \/ {x, y} \in { {"a", "A"}, {"b", "B"} }
EqualIgnoringCase(a, b) ==
    Len(a) = Len(b) /\ \A i \in 1..Len(a) : SameLetter(a[i], b[i])

\* An upload, create or update exchange of this bundle went wrong.
WriteFailure ==
    \E i \in DOMAIN log :
        IsWrite(log[i]) /\ (log[i].kind # "ok" \/ (IsUpload(log[i]) /\ ~IsNumeric(log[i].id)))
\* Any exchange of this bundle went wrong.
RemoteFailure == \E i \in DOMAIN log : log[i].kind # "ok"

WellFormed == record.state = "json" /\ record.keys = AllKeys /\ Len(record.uids) > 0
HasArtworkAndFiles == record.state = "json" /\ {"artwork", "files"} \subseteq record.keys

OtherOwner == uploaded.kind = "entity" /\ ~EqualIgnoringCase(uploaded.author, username)
SameOwnerEntity == uploaded.kind = "entity" /\ EqualIgnoringCase(uploaded.author, username)
Current == uploaded.revision = record.revision /\ uploaded.nfiles = Len(record.files)
Absent ==
    /\ uploaded.kind = "None"
    /\ Len(log) >= 1
    /\ log[1].op = "GET /patches/"
    /\ log[1].kind \in {"ok", "bad_shape"}
    /\ log[1].matches = 0

\* The artwork and every file of the record were uploaded, in order, and each
\* exchange succeeded.
AllUploaded ==
    /\ Len(Uploads) = 1 + Len(record.files)
    /\ Uploads[1].path = record.artwork.p
    /\ \A k \in 1..Len(record.files) : Uploads[k + 1].path = record.files[k].p
    /\ \A k \in DOMAIN Uploads : Uploads[k].kind = "ok"

\* C1: when the lookup returns an entity whose author differs from the acting
\* username, case ignored, the bundle ends Skipped whatever auto and force
\* are, nothing is asked, and no upload, create or update request is sent.
C1_OtherOwnerSkipped ==
    OtherOwner =>
        /\ NoWrites
        /\ ~prompted
        /\ pc = "decide" \/ (Ended /\ Result = "Skipped")
C1_Witness == OtherOwner /\ Ended /\ Result = "Skipped" /\ auto /\ force

C3_ForceAlwaysUpdates ==
    (SameOwnerEntity /\ force /\ HasArtworkAndFiles) =>
        /\ ~prompted
        /\ pc # "confirm"
        /\ Ended =>
              IF WriteFailure THEN Result \in {"Failed", "Aborted"}
              ELSE Result = "Updated" /\ AllUploaded /\ Len(Updates) = 1 /\ Len(Creates) = 0
C3_Witness ==
    /\ SameOwnerEntity /\ force /\ auto /\ WellFormed /\ Current
    /\ Ended /\ Result = "Updated"

\* C4: lookup absent and auto set: no prompt; when the exchanges succeed the
\* bundle ends Uploaded, POST /patches was sent exactly once, its artwork is
\* the integer id of the artwork upload and its files are all integer ids.
C4_AbsentAutoUploads ==
    (Absent /\ auto /\ HasArtworkAndFiles) =>
        /\ ~prompted
        /\ pc # "confirm"
        /\ Len(Updates) = 0
        /\ Ended =>
              IF WriteFailure THEN Result \in {"Failed", "Aborted"} /\ Len(Creates) <= 1
              ELSE /\ Result = "Uploaded"
                   /\ AllUploaded
                   /\ Len(Creates) = 1
                   /\ Creates[1].artwork = IntVal(ToInt(Uploads[1].id))
                   /\ Len(Creates[1].files) = Len(record.files)
                   /\ \A k \in DOMAIN Creates[1].files : Creates[1].files[k].kind = "int"
C4_Witness ==
    /\ Absent /\ auto /\ WellFormed /\ Len(record.files) = MaxFiles
    /\ Ended /\ Result = "Uploaded" /\ Len(Creates) = 1

\* C5: a create or update request is sent only after the artwork and every
\* file of the bundle were uploaded successfully, and once an upload has
\* failed no create or update request is sent for the bundle.
C5_EntityAfterAllUploads ==
    /\ \A i \in DOMAIN log :
          (IsCreate(log[i]) \/ IsUpdate(log[i])) => (i = Len(log) /\ AllUploaded)
    /\ (\E j \in DOMAIN log : IsUpload(log[j]) /\ log[j].kind # "ok")
          => (Len(Creates) = 0 /\ Len(Updates) = 0)
C5_Witness ==
    /\ Len(record.files) = MaxFiles
    /\ Len(Creates) + Len(Updates) = 1
    /\ Ended /\ Result \in {"Uploaded", "Updated"}

\* C6: the file ids sent with a create or update are as many as the local
\* files, and the k-th id is the one returned by the upload of the k-th local
\* file, which carried that file's target_id (none when it has none).
C6_FileIdsInOrder ==
    \A i \in DOMAIN log :
        (IsCreate(log[i]) \/ IsUpdate(log[i])) =>
            /\ Len(log[i].files) = Len(record.files)
            /\ Len(Uploads) = 1 + Len(record.files)
            /\ \A k \in 1..Len(record.files) :
                  /\ Uploads[k + 1].path = record.files[k].p
                  /\ Uploads[k + 1].target_id = record.files[k].target_id
                  /\ log[i].files[k] = IntVal(ToInt(Uploads[k + 1].id))
C6_Witness ==
    /\ Len(record.files) = MaxFiles
    /\ Len(Creates) + Len(Updates) = 1
    /\ Ended /\ Result \in {"Uploaded", "Updated"}
    /\ \E j, k \in 1..Len(record.files) :
          /\ Uploads[j + 1].id # Uploads[k + 1].id
          /\ record.files[j].target_id # record.files[k].target_id

\* C7: a failing exchange with the service (connectivity error, non-JSON or
\* unexpectedly shaped body, non-success status) during lookup, upload, create
\* or update leaves that bundle Failed and the run going.
C7_RemoteFailureOnlyFailsBundle ==
    (Ended /\ RemoteFailure) => (Result = "Failed" /\ run # "aborted")

\* C8: a lookup listing more than one entity fails the bundle: no entity is
\* fetched, nothing is uploaded, created or updated, and the run is back at
\* the loop over the folders.
Ambiguous ==
    /\ Len(log) >= 1
    /\ log[1].op = "GET /patches/"
    /\ log[1].kind = "ok"
    /\ log[1].matches > 1
C8_AmbiguousMatchFails ==
    Ambiguous =>
        /\ Len(log) = 1
        /\ uploaded.kind = "None"
        /\ Ended /\ Result = "Failed" /\ exc = "PatchstorageException"
        /\ pc = "loop" \/ (run = "finished" /\ idx = Len(plugins_folders))
C8_Witness == Ambiguous /\ pc = "loop" /\ run = "running" /\ idx < Len(plugins_folders)

\* C9: a record file that is missing, is not JSON or lacks revision, files
\* or artwork ends only its own bundle; the run goes on.
C9_LocalErrorOnlyFailsBundle ==
    (idx >= 1 /\ pc # "load" /\ ~(record.state = "json"
                                  /\ {"revision", "files", "artwork"} \subseteq record.keys))
        => run # "aborted"

\* C10: when authentication fails the run is over before any folder is
\* listed: no bundle is loaded or looked up and nothing is sent.
C10_AuthFailureAbortsRun ==
    auth_result \notin {"none", "ok"} =>
        /\ run = "aborted" /\ pc = "done"
        /\ PS_API_TOKEN = "None"
        /\ idx = 0 /\ plugins_folders = <<>> /\ outcome = <<>>
        /\ log = <<>>
C10_Witness == auth_result = "http_error" /\ run = "aborted" /\ exc = "PatchstorageException"

\* C11: the session is opened by exactly one call of Patchstorage.auth, made
\* before the first folder is pushed; from then on no step changes the token
\* or authenticates again.
C11_TokenAcquiredOnce ==
    [][ /\ (pc # "auth" => PS_API_TOKEN' = PS_API_TOKEN /\ auth_calls' = auth_calls)
        /\ (pc = "auth" => idx = 0 /\ auth_calls = 0 /\ auth_calls' = 1)
        /\ (idx' >= 1 => auth_calls' = 1) ]_vars
C11_Witness ==
    /\ Ended /\ idx >= 2 /\ Result = "Uploaded"
    /\ auth_calls = 1 /\ PS_API_TOKEN = "tok"

\* C12: without a token, get, upload, update and upload_file end in an error
\* before any request is sent, so no request is ever sent while the token is
\* absent; the error is 'Not authenticated' (a PatchstorageException), except
\* that upload tests its assertions on the record first.
C12_NoRequestWithoutToken ==
    PS_API_TOKEN = "None" =>
        /\ log = <<>>
        /\ pc \in {"get", "artwork", "files", "loop", "done"}
        /\ Ended =>
              /\ Result \in {"Failed", "Aborted"}
              /\ exc \in {"PatchstorageException", "AssertionError"}
              /\ exc = "AssertionError" => mode = "upload" /\ ~HasArtworkAndFiles
              /\ exc = "PatchstorageException" <=> Result = "Failed"
C12_Witness ==
    /\ PS_API_TOKEN = "None" /\ Ended /\ log = <<>>
    /\ mode = "update" /\ HasArtworkAndFiles /\ Len(record.files) >= 1
    /\ exc = "PatchstorageException" /\ Result = "Failed"

\* C13: a record without a uids key, or with an empty uids list, ends its
\* bundle Failed before any request is sent for it, and the run goes on.
NoUids == record.state = "json" /\ ("uids" \notin record.keys \/ record.uids = <<>>)
C13_NoUidsFailsBeforeRequests ==
    NoUids =>
        /\ Ended /\ Result = "Failed"
        /\ exc = "PatchstorageException"
        /\ log = <<>> /\ uploaded = NoneEntity
        /\ run # "aborted"
C13_Witness ==
    /\ record.state = "json" /\ "uids" \in record.keys /\ record.uids = <<>>
    /\ Ended /\ Result = "Failed" /\ log = <<>>
    /\ idx < Len(plugins_folders)

\* C14: the prompt is shown only without auto, when the entity is absent or
\* is the account's own and force is not set; while it is pending nothing has
\* been uploaded, created or updated; an upload without auto starts only after
\* the answer yes; the answer no ends the bundle Skipped without any upload;
\* the answer yes ends it Uploaded (absent) or Updated (own entity) when the
\* exchanges that follow succeed, and Failed or Aborted otherwise.
C14_PromptGatesWrites ==
    /\ prompted => ~auto /\ (uploaded.kind = "None" \/ (SameOwnerEntity /\ ~force))
    /\ pc = "confirm" => prompted /\ answer = "none" /\ NoWrites /\ Result = "Unprocessed"
    /\ answer # "none" => prompted
    /\ (pc \in {"artwork", "files"} /\ ~auto /\ (uploaded.kind = "None" \/ ~force))
          => answer = "yes"
    /\ answer = "no" => Ended /\ Result = "Skipped" /\ NoWrites
    /\ (answer = "yes" /\ Ended) =>
          /\ Result \in {"Uploaded", "Updated", "Failed", "Aborted"}
          /\ (WellFormed /\ ~WriteFailure) =>
                Result = (IF uploaded.kind = "None" THEN "Uploaded" ELSE "Updated")
C14_Witness ==
    /\ ~auto /\ ~force /\ SameOwnerEntity
    /\ prompted /\ answer = "yes"
    /\ Ended /\ Result = "Updated" /\ Len(Uploads) >= 2

\* C15: the terminal state of a bundle is determined by the local record, the
\* remote entity or its absence, the ownership, auto and force (and, where the
\* rules prompt, the answer) exactly as rules 1-5 say, whatever else happened
\* in the run: whenever the lookup gave an answer and no later exchange
\* failed, the bundle ends in the state of the table.
Rules(remote, a, f, current, ans) ==
    CASE remote = "absent" ->
           IF a \/ ans = "yes" THEN "Uploaded" ELSE "Skipped"
      [] remote = "other-owner" -> "Skipped"
      [] remote = "same-owner" ->
           IF f THEN "Updated"
           ELSE IF a THEN (IF current THEN "Skipped" ELSE "Updated")
           ELSE IF ans = "yes" THEN "Updated" ELSE "Skipped"
Remote ==
    IF Absent THEN "absent"
    ELSE IF SameOwnerEntity THEN "same-owner"
    ELSE IF OtherOwner THEN "other-owner"
    ELSE "unknown"
PushedAgain == held.kind = "entity"
C19_SecondPushSkips ==
    (PushedAgain /\ "revision" \in record.keys /\ ~RemoteFailure) =>
        /\ auto /\ ~force
        /\ NoWrites
        /\ pc \in {"load", "get", "get_by_id", "decide", "loop", "done"}
        /\ pc \in {"decide", "loop", "done"} => uploaded = held
        /\ Ended => Result = "Skipped" /\ ~prompted
C19_Witness ==
    /\ PushedAgain /\ held.author # username
    /\ Ended /\ Result = "Skipped"
    /\ Len(log) = 2 /\ ~RemoteFailure
    /\ Len(record.files) = MaxFiles /\ held.nfiles = MaxFiles

\* C16: the scan returns exactly the packages that are a directory in the
\* folder of at least one known target and pass basic validation, each once,
\* each with one build per known target whose folder holds it, in the order
\* of the target list (so with at least one); a target without a folder and a
\* package failing basic validation do not end the scan.
Holds(t, p) == plugins.folder[t.slug].exists /\ plugins.folder[t.slug].entry[p] = "dir"
Holders(p) == { i \in DOMAIN targets : Holds(targets[i], p) }
Scanned == ppc = "clean"
StepOrder ==
    { <<"validate", "metadata">>, <<"metadata", "cleanup">>, <<"cleanup", "artwork">>,
      <<"artwork", "tarballs">>, <<"tarballs", "write">> }
BuildSlugs == { Bundle.targets_info[i].slug : i \in DOMAIN Bundle.targets_info }
ExpectedRecord ==
    [state |-> "json", keys |-> {"uids", "revision", "artwork", "files"},
     uids |-> <<"u1">>, revision |-> 1, artwork |-> Path("artwork.png"),
     files |-> [i \in DOMAIN Bundle.targets_info |->
                  File(<<Pkg, Bundle.targets_info[i].slug>>, Bundle.targets_info[i].id)]]
HasRecord(d, p) == p \in DOMAIN d /\ d[p].json # NoRecord
InBundle == bi \in DOMAIN multi_bundles_map
RecordWritten ==
    /\ HasRecord(dist', Pkg)
    /\ ~HasRecord(dist, Pkg) \/ dist'[Pkg].json # dist[Pkg].json
C17_StepsInOrder ==
    [][ InBundle =>
        /\ ppc' # ppc => (<<ppc, ppc'>> \in StepOrder \/ ppc' \in {"end", "bundles"})
        /\ ppc \in {"validate", "metadata"} => dist' = dist
        /\ RecordWritten =>
              /\ ppc = "write"
              /\ dist[Pkg].artwork /\ dist[Pkg].tarballs = BuildSlugs
              /\ dist'[Pkg] = Content(TRUE, BuildSlugs, ExpectedRecord)
        /\ (ppc' \in {"end", "bundles"} /\ prep_outcome'[bi] = "Prepared") =>
              ppc = "write" /\ RecordWritten
        /\ \A f \in DOMAIN dist : f # Pkg => (f \in DOMAIN dist' /\ dist'[f] = dist[f]) ]_vars
C17_Witness ==
    /\ ppc = "end" /\ InBundle /\ prep_outcome[bi] = "Prepared"
    /\ Len(Bundle.targets_info) = 2
    /\ dist[Pkg] = Content(TRUE, BuildSlugs, ExpectedRecord)
    /\ \E f \in DOMAIN dist : f # Pkg /\ dist[f] = EarlierContent(f)

\* C18: in a prepare of all bundles no error of a bundle ends the command:
\* the two counters always count the bundles done so far, a bundle whose
\* validation, metadata, artwork or archives fail is counted as failed and
\* has no record, the bundles after it are still prepared, and when the
\* counters are printed every bundle of the scan result was counted once.
Count(o) == Cardinality({ i \in DOMAIN prep_outcome : prep_outcome[i] = o })
InPrepareAll == arg = 0 /\ ppc \notin {"new", "scan", "clean"} /\ pc = "auth"
C18_EveryBundleCounted ==
    /\ (InPrepareAll /\ bi >= 1) =>
          /\ pexc = "None"
          /\ Len(prep_outcome) = Len(multi_bundles_map)
          /\ prepared = Count("Prepared") /\ failed = Count("Failed")
          /\ Count("Aborted") = 0
          /\ prepared + failed = (IF ppc \in {"bundles", "end"} THEN bi ELSE bi - 1)
          /\ \A i \in 1..Len(multi_bundles_map) :
                LET p == multi_bundles_map[i].package_name IN
                /\ prep_outcome[i] = "Prepared" => HasRecord(dist, p)
                /\ prep_outcome[i] = "Failed" => ~HasRecord(dist, p)
                /\ prep_outcome[i] = "Unprepared" => i >= bi
    /\ (InPrepareAll /\ ppc = "end" /\ pexc = "None") =>
          /\ printed
          /\ bi = Len(multi_bundles_map)
          /\ prepared + failed = Len(multi_bundles_map)
          /\ Count("Unprepared") = 0
    /\ printed => (arg = 0 /\ ppc = "end" /\ pexc = "None")
    /\ ppc = "cleanup" => Pkg \notin DOMAIN dist
C18_Witness ==
    /\ InPrepareAll /\ printed
    /\ Len(multi_bundles_map) = MaxBundles
    /\ prep_outcome[1] = "Failed" /\ prep_outcome[MaxBundles] = "Prepared"
    /\ failed = 1 /\ prepared = MaxBundles - 1

\* C20: the prepare command clears PATH_DIST before it prepares anything,
\* for 'all' and for one package alike: once it is past the clearing, no
\* folder holds anything of an earlier pass, and for 'prepare <name>' the
\* only folder there can be is <name>'s, so the push of all folders that
\* follows gets at most that one folder. (A command that ended in an error
\* of the manager, the scan or the clearing has prepared nothing.)
NothingOfEarlier ==
    \A f \in DOMAIN dist :
        dist[f].json # EarlierRecord(f) /\ "old" \notin dist[f].tarballs
EndedBeforePreparing ==
    /\ ppc = "end" /\ pexc # "None" /\ bi = 0 /\ prep_outcome = <<>>
    /\ \A f \in DOMAIN dist : dist[f] = EarlierContent(f)
C20_DistClearedFirst ==
    /\ ppc \in {"bundles", "single", "validate", "metadata", "cleanup", "artwork",
                  "tarballs", "write"} => NothingOfEarlier
    /\ ppc = "end" => (NothingOfEarlier \/ EndedBeforePreparing)
    /\ (arg # 0 /\ ppc \notin {"new", "scan", "clean"} /\ ~EndedBeforePreparing) =>
          /\ DOMAIN dist \subseteq {arg}
          /\ pc = "loop" => plugins_folders \in {<<>>, <<arg>>}
          /\ HasRecord(dist, arg) => dist[arg].json.keys = AllKeys
C20_Witness ==
    /\ arg # 0 /\ ppc = "end" /\ pexc = "None"
    /\ DOMAIN dist = {arg} /\ HasRecord(dist, arg)
    /\ dist[arg].json # EarlierRecord(arg)
    /\ pc = "loop" /\ plugins_folders = <<arg>>

====
